---- MODULE Spec2Model ----
(***************************************************************************)
(* A model of apache-release-verification: the check runner (checks.py     *)
(* run_checks), the Result/Report model (report.py), the template resolver *)
(* (checks.py State), the tree comparison of check_git_revision, and the   *)
(* part of main.py that drives them.                                       *)
(*                                                                         *)
(* Python values are modelled as follows: None is the string NoneVal; a    *)
(* str is a TLA+ string (concatenated with \o); an exception is a record   *)
(* [cls, msg]; the outcome of a call is a record [kind |-> "return",       *)
(* value] or [kind |-> "raise", exc].                                      *)
(***************************************************************************)
EXTENDS Integers, Sequences, FiniteSets, TLC

VARIABLES
    pc,          \* position of main: see the comment above RunCheck  
    state,       \* the State object built by main (or drawn, for the resolver)
    checks,      \* the list of Check objects handed to run_checks
    world,       \* the part of the environment the checks look at
    invoked,     \* history: the outcome of every check invoked so far, in order
    results,     \* the local list results of run_checks
    output,      \* what has been shown to the operator, in order
    report,      \* the Report returned by run_checks, or NoReport
    exc,         \* the exception that is leaving main, or NoException
    problems,    \* the value problem_count computed for main, or -1
    exit_status, \* the exit status of the process, or -1 while it runs
    template,    \* resolver: the template being resolved
    resolved,    \* resolver: the outcome of _format_template, or Pending
    left_fs,     \* tree comparison: the git checkout
    right_fs,    \* tree comparison: the extracted source archive
    tree_pc,     \* tree comparison: "populate", "compared", or "idle"
    errors,      \* tree comparison: the list errors of check_git_revision
    sh_cmds,     \* _check_sh: the commands handed to it
    sh_workdir,  \* _check_sh: the working directory handed to it, or None
    sh_statuses, \* the exit status the environment gives to each command
    sh_ran,      \* the commands that sh has run, in order
    sh_returned, \* what the function under study returned, or Pending
    repo,        \* main: the repository option (dev, release, test), or None
    downloaded_to \* main: the directory that holds the fetched release, or None

vars == <<pc, state, checks, world, invoked, results, output, report, exc,
          problems, exit_status, template, resolved, left_fs, right_fs,
          tree_pc, errors, sh_cmds, sh_workdir, sh_statuses, sh_ran,
          sh_returned, repo, downloaded_to>>

runVars == <<pc, state, checks, world, invoked, results, output, report, exc,
             problems, exit_status>>
fmtVars == <<template, resolved>>
treeVars == <<left_fs, right_fs, tree_pc, errors>>
shVars == <<sh_cmds, sh_workdir, sh_statuses, sh_ran, sh_returned>>
mainVars == <<repo, downloaded_to>>

NoneVal == "None"

\* The two quote characters that occur in the texts of the program. The
\* grave accent (U+0060) stands as its name: the character cannot be
\* written in a string of this module.
Quote == "'"

Backtick == "<grave accent>"

(***************************************************************************)
(* Bounds of the model.                                                    *)
(***************************************************************************)
MaxChecks == 3
MaxTemplateLen == 2
MaxResults == 3
MaxCmds == 3
MaxEntries == 3

(***************************************************************************)
(* report.py: ResultKind, Result, Report.                                  *)
(***************************************************************************)
ResultKind == {"PASS", "FAIL", "WARN", "NOTE", "ERROR"}

ResultFields == {"name", "hide_if_passing", "message", "kind"}

Result_passed_NonNoneMessage(name, hide_if_passing) ==
    [name |-> name, hide_if_passing |-> hide_if_passing,
     message |-> "", kind |-> "PASS"]

Result_passed(name, hide_if_passing) ==
    [name |-> name, hide_if_passing |-> hide_if_passing,
     message |-> NoneVal, kind |-> "PASS"]

Result_failed(name, hide_if_passing, message, kind) ==
    [name |-> name, hide_if_passing |-> hide_if_passing,
     message |-> message, kind |-> kind]

\* Python binds the positional arguments of a call to Result.failed to its
\* four parameters (name, hide_if_passing, message, kind), none of which has
\* a default: a call with another number of arguments raises TypeError.
Result_failed_call(args) ==
    IF Len(args) = 4
    THEN [kind |-> "return",
          value |-> Result_failed(args[1], args[2], args[3], args[4])]
    ELSE [kind |-> "raise",
          exc |-> [cls |-> "TypeError",
                   msg |-> "failed() missing 1 required positional argument: "
                           \o Quote \o "kind" \o Quote]]

is_passed(result) == result.kind = "PASS"

RECURSIVE problem_count_from(_, _, _)
problem_count_from(rs, i, n) ==
    IF i > Len(rs) THEN n
    ELSE problem_count_from(rs, i + 1, IF ~is_passed(rs[i]) THEN n + 1 ELSE n)

problem_count_CountsPassed(rep) ==
    Cardinality({i \in DOMAIN rep.results : is_passed(rep.results[i])})

problem_count(rep) == problem_count_from(rep.results, 1, 0)

Report(rs) == [results |-> rs]

(***************************************************************************)
(* checks.py: State and its template resolver.                             *)
(***************************************************************************)
\* A Python dict is a sequence of [key, value] entries in insertion order;
\* updating with a key that is already present replaces its value in place.
DictKeys(d) == [i \in DOMAIN d |-> d[i].key]

DictHas(d, k) == \E i \in DOMAIN d : d[i].key = k

DictGet(d, k) == d[CHOOSE i \in DOMAIN d : d[i].key = k].value

DictSet(d, k, v) ==
    IF DictHas(d, k)
    THEN [i \in DOMAIN d |->
            IF d[i].key = k THEN [key |-> k, value |-> v] ELSE d[i]]
    ELSE Append(d, [key |-> k, value |-> v])

RECURSIVE DictUpdate(_, _)
DictUpdate(d, e) ==
    IF e = <<>> THEN d
    ELSE DictUpdate(DictSet(d, Head(e).key, Head(e).value), Tail(e))

separators == << [key |-> "dash", value |-> "-"],
                 [key |-> "underscore", value |-> "_"] >>

_generate_optional_placeholders(key, value, condition) ==
    LET front == [i \in DOMAIN separators |->
                    [key |-> separators[i].key \o "_" \o key,
                     value |-> IF condition THEN separators[i].value \o value ELSE ""]]
        back == [i \in DOMAIN separators |->
                    [key |-> key \o "_" \o separators[i].key,
                     value |-> IF condition THEN value \o separators[i].value ELSE ""]]
    IN DictUpdate(DictUpdate(<<>>, front), back)

\* The Python expression (x or y) on an Optional[str]: None and the empty
\* string are both falsy.
Or(x, y) == IF x = NoneVal \/ x = "" THEN y ELSE x

_pattern_placeholders_NoVersion(st) ==
    DictUpdate(
        << [key |-> "project", value |-> st.project],
           [key |-> "module", value |-> Or(st.module, "")],
           [key |-> "module_or_project", value |-> Or(st.module, st.project)] >>,
        _generate_optional_placeholders("module", st.module, st.module # NoneVal)
        \o _generate_optional_placeholders("incubating", "incubating", st.incubating)
        \o _generate_optional_placeholders("incubator", "incubator", st.incubating))

_pattern_placeholders(st) ==
    DictUpdate(
        << [key |-> "project", value |-> st.project],
           [key |-> "module", value |-> Or(st.module, "")],
           [key |-> "module_or_project", value |-> Or(st.module, st.project)],
           [key |-> "version", value |-> st.version] >>,
        _generate_optional_placeholders("module", st.module, st.module # NoneVal)
        \o _generate_optional_placeholders("incubating", "incubating", st.incubating)
        \o _generate_optional_placeholders("incubator", "incubator", st.incubating))

\* A template is a sequence of tokens: literal text [lit |-> s] or a
\* replacement field [field |-> name]. str.format, given the keyword
\* arguments kwargs, walks the tokens from left to right, copies literal
\* text, looks each field up in kwargs and raises KeyError(name) at the
\* first field that is not a key of kwargs.
IsField(tok) == "field" \in DOMAIN tok

RECURSIVE str_format_from(_, _, _, _)
str_format_from(tmpl, kwargs, i, acc) ==
    IF i > Len(tmpl) THEN [kind |-> "return", value |-> acc]
    ELSE IF ~IsField(tmpl[i])
         THEN str_format_from(tmpl, kwargs, i + 1, acc \o tmpl[i].lit)
         ELSE IF DictHas(kwargs, tmpl[i].field)
              THEN str_format_from(tmpl, kwargs, i + 1,
                                   acc \o DictGet(kwargs, tmpl[i].field))
              ELSE [kind |-> "raise",
                    exc |-> [cls |-> "KeyError", msg |-> tmpl[i].field]]

str_format(tmpl, kwargs) == str_format_from(tmpl, kwargs, 1, "")

\* sep.join(xs): the elements lo..hi of xs with sep between neighbours.
\* (The list is halved so that long lists of characters can be joined.)
RECURSIVE str_join_from(_, _, _, _)
str_join_from(sep, xs, lo, hi) ==
    IF lo > hi THEN ""
    ELSE IF lo = hi THEN xs[lo]
    ELSE str_join_from(sep, xs, lo, (lo + hi) \div 2) \o sep
         \o str_join_from(sep, xs, (lo + hi) \div 2 + 1, hi)

str_join(sep, xs) == str_join_from(sep, xs, 1, Len(xs))

\* The except clause of _format_template: a KeyError becomes an Exception
\* that names the key and lists the keys of the placeholders.
PlaceholderNotKnown(r, placeholders) ==
    IF r.kind = "raise" /\ r.exc.cls = "KeyError"
    THEN [kind |-> "raise",
          exc |-> [cls |-> "Exception",
                   msg |-> "Placeholder " \o Quote \o r.exc.msg \o Quote
                           \o " is not known. Valid placeholders: "
                           \o str_join(", ", DictKeys(placeholders))]]
    ELSE r

_format_template(st, tmpl) ==
    PlaceholderNotKnown(str_format(tmpl, _pattern_placeholders(st)),
                        _pattern_placeholders(st))

\* os.path.join of two components (neither absolute).
path_join(a, b) == IF a = "" THEN b ELSE a \o "/" \o b

release_dir(st) ==
    path_join(path_join(st.work_dir, Or(st.module, st.project)), st.version)

\* A derived path is the outcome of a call: resolving its template may raise.
Returned(v) == [kind |-> "return", value |-> v]

\* os.path.join(directory, name), for a name that may have raised.
JoinedUnder(directory, name) ==
    IF name.kind = "raise" THEN name
    ELSE Returned(path_join(directory, name.value))

\* path + suffix, for a path that may have raised.
Suffixed(path, suffix) ==
    IF path.kind = "raise" THEN path ELSE Returned(path.value \o suffix)

base_path(st) ==
    JoinedUnder(release_dir(st), _format_template(st, st.zipname_template))

zip_path(st) == Suffixed(base_path(st), ".zip")

sha512_path(st) == Suffixed(zip_path(st), ".sha512")

keys_path(st) == Returned(path_join(st.work_dir, "KEYS"))

asc_path(st) == Suffixed(zip_path(st), ".asc")

unzipped_dir(st) == Returned(path_join(st.work_dir, "unzipped"))

source_dir(st) ==
    JoinedUnder(unzipped_dir(st).value,
                _format_template(st, st.sourcedir_template))

git_repo_name(st) == _format_template(st, st.github_reponame_template)

git_dir(st) == JoinedUnder(path_join(st.work_dir, "git"), git_repo_name(st))

(***************************************************************************)
(* checks.py: Check, and the functions a Check can wrap.                   *)
(***************************************************************************)
Check(fun, name, hide_if_passing) ==
    [fun |-> fun, name |-> name, hide_if_passing |-> hide_if_passing]

Raised(cls, msg) == [kind |-> "raise", exc |-> [cls |-> cls, msg |-> msg]]

\* Check functions that ignore the State: the three things any check
\* function can do when run_checks invokes it.
StubFuns == {"returns_none", "returns_error", "raises"}

StubCall(fun) ==
    CASE fun = "returns_none" -> Returned(NoneVal)
      [] fun = "returns_error" -> Returned("something is wrong")
      [] fun = "raises" -> Raised("RuntimeError", "boom")

(***************************************************************************)
(* The two directory trees compared by check_git_revision, and the         *)
(* filecmp.dircmp object built over them.                                  *)
(*                                                                         *)
(* A tree is a function from relative paths (non-empty sequences of entry  *)
(* names) to what is at the path: "dir", or a regular file, given by its   *)
(* content ("x", "y"), or "locked" for a regular file that cannot be read. *)
(***************************************************************************)
FileNames == {".git", "DEPENDENCIES", "build.log"}

DirNames == {"d", "e"}

Names == FileNames \cup DirNames

MaxDepth == 2

\* list.sort() on entry names: the order of the code points.
NameOrder == <<".git", "DEPENDENCIES", "build.log", "d", "e">>

Sorted(S) == SelectSeq(NameOrder, LAMBDA n : n \in S)

EmptyTree == [p \in {} |-> "dir"]

IsDir(fs, rel) == rel = <<>> \/ (rel \in DOMAIN fs /\ fs[rel] = "dir")

listdir(fs, rel) == {n \in Names : Append(rel, n) \in DOMAIN fs}

\* filecmp.dircmp(a, b, ignore=[]): rel locates the pair in the two trees.
dircmp(a, b, rel) == [left |-> a, right |-> b, rel |-> rel]

left_only(lfs, rfs, diff) ==
    Sorted(listdir(lfs, diff.rel) \ listdir(rfs, diff.rel))

right_only(lfs, rfs, diff) ==
    Sorted(listdir(rfs, diff.rel) \ listdir(lfs, diff.rel))

common(lfs, rfs, diff) ==
    Sorted(listdir(lfs, diff.rel) \cap listdir(rfs, diff.rel))

common_dirs(lfs, rfs, diff) ==
    SelectSeq(common(lfs, rfs, diff),
              LAMBDA n : lfs[Append(diff.rel, n)] = "dir"
                         /\ rfs[Append(diff.rel, n)] = "dir")

common_files(lfs, rfs, diff) ==
    SelectSeq(common(lfs, rfs, diff),
              LAMBDA n : lfs[Append(diff.rel, n)] # "dir"
                         /\ rfs[Append(diff.rel, n)] # "dir")

\* filecmp._cmp: 0 the files are equal, 1 they differ, 2 comparing them
\* raised OSError. (The stat signatures of a fresh checkout and of a fresh
\* extraction differ in their modification times, so that the contents are
\* what is compared.)
_cmp(l, r) ==
    IF l = "locked" \/ r = "locked" THEN 2
    ELSE IF l = r THEN 0 ELSE 1

diff_files(lfs, rfs, diff) ==
    SelectSeq(common_files(lfs, rfs, diff),
              LAMBDA n : _cmp(lfs[Append(diff.rel, n)], rfs[Append(diff.rel, n)]) = 1)

funny_files(lfs, rfs, diff) ==
    SelectSeq(common_files(lfs, rfs, diff),
              LAMBDA n : _cmp(lfs[Append(diff.rel, n)], rfs[Append(diff.rel, n)]) = 2)

\* dircmp.subdirs.values(), in the order of common_dirs.
subdirs(lfs, rfs, diff) ==
    LET cd == common_dirs(lfs, rfs, diff)
    IN [i \in DOMAIN cd |->
          dircmp(path_join(diff.left, cd[i]), path_join(diff.right, cd[i]),
                 Append(diff.rel, cd[i]))]

(***************************************************************************)
(* checks.py: the three walks of the dircmp object. The elements of the    *)
(* list errors are strings.                                              *)
(***************************************************************************)
\* The characters of the texts that the walks hand to errors += ....
NameChars(n) ==
    CASE n = ".git" -> <<".", "g", "i", "t">>
      [] n = "DEPENDENCIES" -> <<"D", "E", "P", "E", "N", "D", "E", "N", "C", "I",
          "E", "S">>
      [] n = "build.log" -> <<"b", "u", "i", "l", "d", ".", "l", "o", "g">>
      [] n = "d" -> <<"d">>
      [] n = "e" -> <<"e">>

DiffFilesPrefix ==
    <<"T", "h", "e", " ", "c", "o", "n", "t", "e", "n",
      "t", "s", " ", "o", "f", " ", "t", "h", "e", " ",
      "f", "o", "l", "l", "o", "w", "i", "n", "g", " ",
      "f", "i", "l", "e", "s", " ", "d", "i", "f", "f",
      "e", "r", ":", " ">>

FunnyFilesPrefix ==
    <<"F", "a", "i", "l", "e", "d", " ", "t", "o", " ",
      "c", "o", "m", "p", "a", "r", "e", " ", "c", "o",
      "n", "t", "e", "n", "t", "s", " ", "o", "f", " ",
      "t", "h", "e", " ", "f", "o", "l", "l", "o", "w",
      "i", "n", "g", " ", "f", "i", "l", "e", "s", ":",
      " ">>

\* The characters of " ".join(names).
RECURSIVE JoinedNameChars(_, _)
JoinedNameChars(names, i) ==
    IF i > Len(names) THEN <<>>
    ELSE (IF i = 1 THEN <<>> ELSE <<" ">>) \o NameChars(names[i])
         \o JoinedNameChars(names, i + 1)

\* list += str: extends the list by the characters of the string, each a
\* string of length one.
ExtendByStr(list, chars) == list \o chars

allowed_left_only ==
    {".git", ".gitignore", ".gitattributes", ".travis.yml", ".mvn", "mvnw",
     "mvnw.cmd", "Jenkinsfile", "CONTRIBUTING", "CONTRIBUTING.md"}

allowed_right_only == {"DEPENDENCIES"}

OnlyMessages_IgnoringAllowed(dir, names, allowed, suffix) ==
    [i \in DOMAIN names |-> path_join(dir, names[i]) \o suffix]

OnlyMessages(dir, names, allowed, suffix) ==
    LET bad == SelectSeq(names, LAMBDA n : n \notin allowed)
    IN [i \in DOMAIN bad |-> path_join(dir, bad[i]) \o suffix]

RECURSIVE _check_dircmp_only_either_allowed(_, _, _)
RECURSIVE only_either_allowed_subdirs(_, _, _, _)
only_either_allowed_subdirs(lfs, rfs, subs, i) ==
    IF i > Len(subs) THEN <<>>
    ELSE _check_dircmp_only_either_allowed(lfs, rfs, subs[i])
         \o only_either_allowed_subdirs(lfs, rfs, subs, i + 1)

_check_dircmp_only_either_allowed(lfs, rfs, diff) ==
    OnlyMessages(diff.left, left_only(lfs, rfs, diff), allowed_left_only,
                 " is only in the git checkout")
    \o OnlyMessages(diff.right, right_only(lfs, rfs, diff), allowed_right_only,
                    " is only in the source archive")
    \o only_either_allowed_subdirs(lfs, rfs, subdirs(lfs, rfs, diff), 1)

DiffFilesText(names) == DiffFilesPrefix \o JoinedNameChars(names, 1)

FunnyFilesText(names) == FunnyFilesPrefix \o JoinedNameChars(names, 1)

RECURSIVE _check_dircmp_no_diff_files(_, _, _)
RECURSIVE no_diff_files_subdirs(_, _, _, _)
no_diff_files_subdirs(lfs, rfs, subs, i) ==
    IF i > Len(subs) THEN <<>>
    ELSE _check_dircmp_no_diff_files(lfs, rfs, subs[i])
         \o no_diff_files_subdirs(lfs, rfs, subs, i + 1)

_check_dircmp_no_diff_files(lfs, rfs, diff) ==
    (IF diff_files(lfs, rfs, diff) # <<>>
     THEN ExtendByStr(<<>>, DiffFilesText(diff_files(lfs, rfs, diff)))
     ELSE <<>>)
    \o no_diff_files_subdirs(lfs, rfs, subdirs(lfs, rfs, diff), 1)

\* The walk for the files that could not be compared names diff.diff_files
\* in its message and hands the subdirectories to _check_dircmp_no_diff_files.
_check_dircmp_no_funny_files(lfs, rfs, diff) ==
    (IF funny_files(lfs, rfs, diff) # <<>>
     THEN ExtendByStr(<<>>, FunnyFilesText(diff_files(lfs, rfs, diff)))
     ELSE <<>>)
    \o no_diff_files_subdirs(lfs, rfs, subdirs(lfs, rfs, diff), 1)

\* check_git_revision, lines 360-369: the list errors before line 371.
CompareTrees(lfs, rfs, git, src) ==
    LET diff == dircmp(git, src, <<>>)
    IN _check_dircmp_only_either_allowed(lfs, rfs, diff)
       \o _check_dircmp_no_diff_files(lfs, rfs, diff)
       \o _check_dircmp_no_funny_files(lfs, rfs, diff)

\* check_git_revision, lines 371-374: "\n".join of the list, or None.
CompareResult(errs) ==
    IF errs # <<>>
    THEN str_join("\n", Append(errs, "See above for a full output of diff."))
    ELSE NoneVal

(***************************************************************************)
(* helpers.py sh and checks.py _check_sh. The exit status of every shell   *)
(* command comes from the environment: sts holds the statuses of the     *)
(* commands a check function runs, in the order in which it runs them.     *)
(***************************************************************************)
Statuses == {0, 1}

StatusText(status) == ToString(status)

ShFailureMessage(cmd, workdir, status) ==
    "Executing " \o Backtick \o cmd \o Backtick
    \o (IF workdir # NoneVal THEN " in " \o workdir ELSE "")
    \o " exited with non-zero status code " \o StatusText(status) \o ". "
    \o "See above for output. (Note that the command was run under "
    \o Backtick \o "set -euo pipefail" \o Backtick \o ")"

\* cmds is the list of commands (a single str is handed over as the list
\* holding it); sts[i] is the status of cmds[i] if it is run.
RECURSIVE _check_sh_from(_, _, _, _)
_check_sh_from(cmds, workdir, sts, i) ==
    IF i > Len(cmds) THEN NoneVal
    ELSE IF sts[i] # 0 THEN ShFailureMessage(cmds[i], workdir, sts[i])
         ELSE _check_sh_from(cmds, workdir, sts, i + 1)

_check_sh(cmds, workdir, sts) == _check_sh_from(cmds, workdir, sts, 1)

\* The first of the outcomes that raised, in the order of evaluation, or
\* <<>> if none did.
FirstRaise(outcomes) == SelectSeq(outcomes, LAMBDA o : o.kind = "raise")

\* A check function that evaluates the given derived paths (in this order)
\* to build its commands and returns _check_sh of the commands.
ShCheck(paths, cmds, workdir, sts) ==
    IF FirstRaise(paths) # <<>> THEN Head(FirstRaise(paths))
    ELSE Returned(_check_sh(cmds, workdir, sts))

(***************************************************************************)
(* checks.py: the registered check functions.                              *)
(***************************************************************************)
check_zip_file_exists(st, sts) ==
    ShCheck(<<zip_path(st)>>, <<"test -f " \o zip_path(st).value>>, NoneVal, sts)

check_sha512_file_exists(st, sts) ==
    ShCheck(<<sha512_path(st)>>, <<"test -f " \o sha512_path(st).value>>,
            NoneVal, sts)

check_asc_file_exists(st, sts) ==
    ShCheck(<<asc_path(st)>>, <<"test -f " \o asc_path(st).value>>, NoneVal, sts)

check_keys_file_exists(st, sts) ==
    ShCheck(<<keys_path(st)>>, <<"test -f " \o keys_path(st).value>>,
            NoneVal, sts)

check_sha512(st, sts) ==
    ShCheck(<<sha512_path(st)>>,
            <<"sha512sum -c " \o sha512_path(st).value>>, release_dir(st), sts)

check_gpg_key_in_keys_file(st, sts) ==
    ShCheck(<<keys_path(st)>>,
            <<"gpg --with-colons --import-options import-show "
              \o "--dry-run --import " \o keys_path(st).value \o " "
              \o "| grep " \o Quote \o "^pub:" \o Quote \o " | cut -f5 -d: "
              \o "| grep " \o Quote \o st.gpg_key \o "$" \o Quote>>,
            NoneVal, sts)

check_gpg_signature(st, sts) ==
    LET full_keyring == path_join(st.work_dir, "gpg.keyring.all")
        strict_keyfile == path_join(st.work_dir, "KEYS.strict")
        strict_keyring == path_join(st.work_dir, "gpg.keyring.strict")
    IN ShCheck(<<keys_path(st), asc_path(st), zip_path(st)>>,
               <<"gpg --no-default-keyring --keyring " \o full_keyring \o " "
                 \o "--import " \o keys_path(st).value,
                 "gpg --no-default-keyring --keyring " \o full_keyring \o " "
                 \o "--export --armor " \o st.gpg_key \o " > " \o strict_keyfile,
                 "gpg --no-default-keyring --keyring " \o strict_keyring \o " "
                 \o "--import " \o strict_keyfile,
                 "gpgv --keyring " \o strict_keyring \o " "
                 \o asc_path(st).value \o " " \o zip_path(st).value>>,
               NoneVal, sts)

check_unzip(st, sts) ==
    ShCheck(<<unzipped_dir(st), zip_path(st)>>,
            <<"unzip -q -d " \o unzipped_dir(st).value \o " "
              \o zip_path(st).value>>,
            NoneVal, sts)

check_source_dir_in_zip(st, sts) ==
    ShCheck(<<source_dir(st)>>, <<"test -d " \o source_dir(st).value>>,
            NoneVal, sts)

\* sts[1], sts[2]: git clone and git checkout; sts[3]: the informational
\* diff, whose status is not looked at.
check_git_revision(st, lfs, rfs, sts) ==
    LET paths == <<git_repo_name(st), git_dir(st), git_dir(st), git_dir(st)>>
        sh_result ==
            _check_sh(<<"git clone https://github.com/apache/"
                        \o git_repo_name(st).value \o " " \o git_dir(st).value,
                        "git --work-tree " \o git_dir(st).value \o " "
                        \o "--git-dir " \o git_dir(st).value \o "/.git "
                        \o "checkout --quiet " \o st.git_hash>>,
                      NoneVal, sts)
    IN IF FirstRaise(paths) # <<>> THEN Head(FirstRaise(paths))
       ELSE IF sh_result # NoneVal THEN Returned(sh_result)
       ELSE IF source_dir(st).kind = "raise" THEN source_dir(st)
       ELSE Returned(CompareResult(
                CompareTrees(lfs, rfs, git_dir(st).value, source_dir(st).value)))

blacklist == <<".git", ".gitignore", ".mvn", "mvnw", "mvnw.cmd", "Jenkinsfile">>

check_blacklisted_files(st, sts) ==
    ShCheck(<<source_dir(st)>>,
            [i \in DOMAIN blacklist |->
                "find " \o source_dir(st).value \o " -name " \o blacklist[i]
                \o " | ifne bash -c " \o Quote \o "cat && false" \o Quote],
            NoneVal, sts)

check_gitignore_in_repo(st, sts) ==
    IF git_dir(st).kind = "raise" THEN git_dir(st)
    ELSE Returned(_check_sh(<<"shopt -s globstar; ! git check-ignore **">>,
                            git_dir(st).value, sts))

\* sts[1]: the copy of the .gitignore files; sts[2], sts[3]: git init and
\* git check-ignore, run only if the copy succeeded; the statuses of the two
\* clean-up commands are not looked at.
check_gitignore_in_release(st, sts) ==
    LET paths == <<source_dir(st), git_dir(st)>>
        copied ==
            _check_sh(<<"find . -name .gitignore | xargs cp --parents -t "
                        \o source_dir(st).value>>,
                      git_dir(st).value, sts)
        ignored ==
            _check_sh(<<"git init --quiet && git add .",
                        "shopt -s globstar; ! git check-ignore **">>,
                      source_dir(st).value, SubSeq(sts, 2, 3))
    IN IF FirstRaise(paths) # <<>> THEN Head(FirstRaise(paths))
       ELSE Returned(IF copied = NoneVal THEN ignored ELSE copied)

_check_file_looks_good(path, sts) ==
    _check_sh(<<"less " \o path,
                "read -r -p " \o Quote \o "Did the contents of " \o path
                \o " look good to you? [y/N] " \o Quote \o " response; "
                \o "test \"$response\" == y">>,
              NoneVal, sts)

\* sts[1], sts[2]: the commands for DISCLAIMER; sts[3], sts[4]: for NOTICE.
check_disclaimer_and_notice_look_good(st, sts) ==
    IF source_dir(st).kind = "raise" THEN source_dir(st)
    ELSE LET d == _check_file_looks_good(
                      path_join(source_dir(st).value, "DISCLAIMER"),
                      SubSeq(sts, 1, 2))
             n == _check_file_looks_good(
                      path_join(source_dir(st).value, "NOTICE"),
                      SubSeq(sts, 3, 4))
             errs == (IF d # NoneVal THEN <<d>> ELSE <<>>)
                     \o (IF n # NoneVal THEN <<n>> ELSE <<>>)
         IN Returned(IF errs # <<>> THEN str_join("\n", errs) ELSE NoneVal)

check_license_is_apache_2(st, sts) ==
    LET expected_license_path == path_join(st.work_dir, "expected_license")
    IN IF source_dir(st).kind = "raise" THEN source_dir(st)
       ELSE Returned(_check_sh(
                <<"diff " \o expected_license_path \o " "
                  \o path_join(source_dir(st).value, "LICENSE")>>,
                NoneVal, sts))

check_license_looks_good(st, sts) ==
    IF source_dir(st).kind = "raise" THEN source_dir(st)
    ELSE Returned(_check_file_looks_good(
                      path_join(source_dir(st).value, "LICENSE"), sts))

check_no_binary_files(st, sts) ==
    ShCheck(<<source_dir(st)>>,
            <<"diff <(echo -n) <(find " \o source_dir(st).value \o " -type f "
              \o "| xargs file | grep -v text | cut -f1 -d:)">>,
            NoneVal, sts)

\* BuildAndTestMaven and BuildAndTestNpm: name, the manifest whose
\* existence in the source directory should_run looks for, and the commands
\* of run.
strategies ==
    << [name |-> "maven", manifest |-> "pom.xml",
        cmds |-> <<"mvn --quiet -N io.takari:maven:wrapper -Dmaven=3.6.0",
                   "./mvnw --quiet package">>],
       [name |-> "npm", manifest |-> "package.json",
        cmds |-> <<"npm test">>] >>

\* list(s), the characters of a str, for the texts that check_build_and_test
\* hands to errors += ....
Characters(s) ==
    CASE s = "maven" ->
        <<"m", "a", "v", "e", "n">>
      [] s = "npm" ->
        <<"n", "p", "m">>
      [] s = ": " ->
        <<":", " ">>
      [] s = "Executing " ->
        <<"E", "x", "e", "c", "u", "t", "i", "n", "g", " ">>
      [] s = " in " ->
        <<" ", "i", "n", " ">>
      [] s = " exited with non-zero status code " ->
        <<" ", "e", "x", "i", "t", "e", "d", " ", "w", "i", "t", "h", " ",
          "n", "o", "n", "-", "z", "e", "r", "o", " ", "s", "t", "a", "t",
          "u", "s", " ", "c", "o", "d", "e", " ">>
      [] s = ". " ->
        <<".", " ">>
      [] s = "See above for output. (Note that the command was run under " ->
        <<"S", "e", "e", " ", "a", "b", "o", "v", "e", " ", "f", "o", "r",
          " ", "o", "u", "t", "p", "u", "t", ".", " ", "(", "N", "o", "t",
          "e", " ", "t", "h", "a", "t", " ", "t", "h", "e", " ", "c", "o",
          "m", "m", "a", "n", "d", " ", "w", "a", "s", " ", "r", "u", "n",
          " ", "u", "n", "d", "e", "r", " ">>
      [] s = "set -euo pipefail" ->
        <<"s", "e", "t", " ", "-", "e", "u", "o", " ", "p", "i", "p", "e",
          "f", "a", "i", "l">>
      [] s = ")" ->
        <<")">>
      [] s = "0" ->
        <<"0">>
      [] s = "1" ->
        <<"1">>
      [] s = "mvn --quiet -N io.takari:maven:wrapper -Dmaven=3.6.0" ->
        <<"m", "v", "n", " ", "-", "-", "q", "u", "i", "e", "t", " ", "-",
          "N", " ", "i", "o", ".", "t", "a", "k", "a", "r", "i", ":", "m",
          "a", "v", "e", "n", ":", "w", "r", "a", "p", "p", "e", "r", " ",
          "-", "D", "m", "a", "v", "e", "n", "=", "3", ".", "6", ".", "0">>
      [] s = "./mvnw --quiet package" ->
        <<".", "/", "m", "v", "n", "w", " ", "-", "-", "q", "u", "i", "e",
          "t", " ", "p", "a", "c", "k", "a", "g", "e">>
      [] s = "npm test" ->
        <<"n", "p", "m", " ", "t", "e", "s", "t">>
      [] s = "/tmp/w/unzipped/demo-1.0" ->
        <<"/", "t", "m", "p", "/", "w", "/", "u", "n", "z", "i", "p", "p",
          "e", "d", "/", "d", "e", "m", "o", "-", "1", ".", "0">>
      [] s = "/tmp/w/unzipped/brave-1.0" ->
        <<"/", "t", "m", "p", "/", "w", "/", "u", "n", "z", "i", "p", "p",
          "e", "d", "/", "b", "r", "a", "v", "e", "-", "1", ".", "0">>

\* The characters of the message of _check_sh (the grave accent is one
\* character).
ShFailureChars(cmd, workdir, status) ==
    Characters("Executing ") \o <<Backtick>> \o Characters(cmd) \o <<Backtick>>
    \o (IF workdir # NoneVal THEN Characters(" in ") \o Characters(workdir)
        ELSE <<>>)
    \o Characters(" exited with non-zero status code ")
    \o Characters(StatusText(status)) \o Characters(". ")
    \o Characters("See above for output. (Note that the command was run under ")
    \o <<Backtick>> \o Characters("set -euo pipefail") \o <<Backtick>>
    \o Characters(")")

\* The commands that _check_sh hands to sh, lines 193-194: every command up
\* to the first one whose status is not 0, that one included.
_check_sh_ran_EveryCommand(cmds, sts, i) == SubSeq(cmds, i, Len(cmds))

RECURSIVE _check_sh_ran(_, _, _)
_check_sh_ran(cmds, sts, i) ==
    IF i > Len(cmds) THEN <<>>
    ELSE IF sts[i] # 0 THEN <<cmds[i]>>
         ELSE <<cmds[i]>> \o _check_sh_ran(cmds, sts, i + 1)

\* The index of the command at which _check_sh returns its message.
FirstFailing(cmds, sts) ==
    CHOOSE i \in DOMAIN cmds :
        sts[i] # 0 /\ \A j \in 1..(i - 1) : sts[j] = 0

\* The list errors of check_build_and_test after the loop over the
\* strategies: sts[1], sts[2] are the statuses of the maven commands and
\* sts[3] the status of npm test. errors += text extends the list by the
\* characters of the text.
RECURSIVE build_and_test_errors(_, _, _, _, _)
build_and_test_errors(src, manifests, sts, i, offset) ==
    IF i > Len(strategies) THEN <<>>
    ELSE IF strategies[i].manifest \notin manifests
         THEN build_and_test_errors(src, manifests, sts, i + 1,
                                    offset + Len(strategies[i].cmds))
         ELSE LET n == Len(strategies[i].cmds)
                  err == _check_sh(strategies[i].cmds, src,
                                   SubSeq(sts, offset + 1, offset + n))
              IN (IF err # NoneVal
                  THEN ExtendByStr(<<>>,
                          Characters(strategies[i].name) \o Characters(": ")
                          \o ShFailureChars(
                                strategies[i].cmds[
                                    FirstFailing(strategies[i].cmds,
                                        SubSeq(sts, offset + 1, offset + n))],
                                src,
                                SubSeq(sts, offset + 1, offset + n)[
                                    FirstFailing(strategies[i].cmds,
                                        SubSeq(sts, offset + 1, offset + n))]))
                  ELSE <<>>)
                 \o build_and_test_errors(src, manifests, sts, i + 1, offset + n)

\* The commands that the strategies hand to sh, in order.
RECURSIVE build_and_test_ran_from(_, _, _, _)
build_and_test_ran_from(manifests, sts, i, offset) ==
    IF i > Len(strategies) THEN <<>>
    ELSE (IF strategies[i].manifest \in manifests
          THEN _check_sh_ran(strategies[i].cmds,
                             SubSeq(sts, offset + 1,
                                    offset + Len(strategies[i].cmds)), 1)
          ELSE <<>>)
         \o build_and_test_ran_from(manifests, sts, i + 1,
                                    offset + Len(strategies[i].cmds))

\* The commands that check_build_and_test hands to sh, in order.
build_and_test_ran(st, manifests, sts) ==
    IF source_dir(st).kind = "raise" THEN <<>>
    ELSE IF st.build_and_test_command # NoneVal
    THEN _check_sh_ran(<<st.build_and_test_command>>, sts, 1)
    ELSE build_and_test_ran_from(manifests, sts, 1, 0)

check_build_and_test(st, manifests, sts) ==
    IF source_dir(st).kind = "raise" THEN source_dir(st)
    ELSE IF st.build_and_test_command # NoneVal
    THEN Returned(_check_sh(<<st.build_and_test_command>>,
                            source_dir(st).value, sts))
    ELSE LET executed_at_least_one ==
                 \E i \in DOMAIN strategies : strategies[i].manifest \in manifests
             errs ==
                 IF ~executed_at_least_one
                 THEN <<"Heuristics failed to figure out the way to build and test this release.",
                        "Please specify the build-and-test command as:",
                        "--build-and-test-command " \o Quote \o "shell script" \o Quote,
                        "(Possibly --build-and-test-command true)">>
                 ELSE build_and_test_errors(source_dir(st).value, manifests,
                                            sts, 1, 0)
         IN Returned(IF errs # <<>> THEN str_join("\n", errs) ELSE NoneVal)

\* The number of shell commands whose status a check function may look at.
NumCommands(fun) ==
    CASE fun \in StubFuns -> 0
      [] fun = "check_gpg_signature" -> 4
      [] fun = "check_git_revision" -> 2
      [] fun = "check_blacklisted_files" -> 6
      [] fun = "check_gitignore_in_release" -> 3
      [] fun = "check_disclaimer_and_notice_look_good" -> 4
      [] fun = "check_license_looks_good" -> 2
      [] fun = "check_build_and_test" -> 3
      [] OTHER -> 1

\* Check.__call__: self._fun(state). w is the environment the function
\* looks at, sts the statuses it gives to the commands the function runs.
Check_call(check, st, w, sts) ==
    CASE check.fun \in StubFuns -> StubCall(check.fun)
      [] check.fun = "check_zip_file_exists" -> check_zip_file_exists(st, sts)
      [] check.fun = "check_sha512_file_exists" ->
            check_sha512_file_exists(st, sts)
      [] check.fun = "check_keys_file_exists" -> check_keys_file_exists(st, sts)
      [] check.fun = "check_asc_file_exists" -> check_asc_file_exists(st, sts)
      [] check.fun = "check_sha512" -> check_sha512(st, sts)
      [] check.fun = "check_gpg_key_in_keys_file" ->
            check_gpg_key_in_keys_file(st, sts)
      [] check.fun = "check_gpg_signature" -> check_gpg_signature(st, sts)
      [] check.fun = "check_unzip" -> check_unzip(st, sts)
      [] check.fun = "check_source_dir_in_zip" ->
            check_source_dir_in_zip(st, sts)
      [] check.fun = "check_git_revision" ->
            check_git_revision(st, w.git_tree, w.source_tree, sts)
      [] check.fun = "check_blacklisted_files" ->
            check_blacklisted_files(st, sts)
      [] check.fun = "check_gitignore_in_repo" ->
            check_gitignore_in_repo(st, sts)
      [] check.fun = "check_gitignore_in_release" ->
            check_gitignore_in_release(st, sts)
      [] check.fun = "check_disclaimer_and_notice_look_good" ->
            check_disclaimer_and_notice_look_good(st, sts)
      [] check.fun = "check_license_is_apache_2" ->
            check_license_is_apache_2(st, sts)
      [] check.fun = "check_license_looks_good" ->
            check_license_looks_good(st, sts)
      [] check.fun = "check_no_binary_files" -> check_no_binary_files(st, sts)
      [] check.fun = "check_build_and_test" ->
            check_build_and_test(st, w.manifests, sts)

\* checks.py, lines 528-547, with the name and the hide_if_passing flag that
\* the decorator of each function gives.
registered_checks ==
    << Check("check_zip_file_exists", "Source archive has expected name", FALSE),
       Check("check_sha512_file_exists",
             "SHA512 checksum exists with expected name", TRUE),
       Check("check_keys_file_exists", "KEYS file exists", TRUE),
       Check("check_asc_file_exists",
             "ASC checksum exists with expected name", TRUE),
       Check("check_sha512", "SHA512 checksum is correct", FALSE),
       Check("check_gpg_key_in_keys_file",
             "Provided GPG key is in KEYS file", FALSE),
       Check("check_gpg_signature",
             "GPG signature is valid, made with the provided key", FALSE),
       Check("check_unzip", "Source archive can be unzipped", TRUE),
       Check("check_source_dir_in_zip",
             "Base dir in archive has expected name", FALSE),
       Check("check_git_revision",
             "Git tree at provided revision matches source archive", FALSE),
       Check("check_blacklisted_files",
             "No blacklisted files in the source archive", TRUE),
       Check("check_gitignore_in_repo",
             "No .gitignore-d files in git checkout", TRUE),
       Check("check_gitignore_in_release",
             "No .gitignore-d files in source archive", FALSE),
       Check("check_disclaimer_and_notice_look_good",
             "DISCLAIMER and NOTICE look good", FALSE),
       Check("check_license_is_apache_2", "LICENSE is Apache 2.0", TRUE),
       Check("check_license_looks_good", "LICENSE looks good", FALSE),
       Check("check_no_binary_files", "No binary files in the release", FALSE),
       Check("check_build_and_test", "Source archive builds cleanly", FALSE) >>

\* The exception classes that except Exception catches.
ExceptionClasses ==
    {"Exception", "RuntimeError", "TypeError", "KeyError", "AttributeError",
     "ValueError", "OSError"}

\* "".join(traceback.format_exception_only(ex.__class__, ex)).strip()
format_exception_only(ex) == ex.cls \o ": " \o ex.msg

(***************************************************************************)
(* helpers.py: what the operator is shown. Every entry of output records *)
(* the function that wrote it and the text.                                *)
(***************************************************************************)
step(msg) == [by |-> "step", text |-> "> " \o msg]

header(msg) == [by |-> "header", text |-> " " \o msg \o " "]

info(msg) == [by |-> "info", text |-> msg]

\* helpers.print_error is imported by checks.py but is not defined in
\* helpers.py as given: it shows the message to the operator.
print_error(msg) == [by |-> "print_error", text |-> msg]

(***************************************************************************)
(* checks.py: one iteration of the loop of run_checks.                     *)
(***************************************************************************)
\* The try statement of lines 170-181: the value bound to result, or the
\* exception that leaves the try statement.
TryResult(check, called) ==
    LET handler(ex) ==
            Result_failed_call(<<check.name, check.hide_if_passing,
                                 format_exception_only(ex)>>)
        body ==
            IF called.kind = "raise" THEN called
            ELSE IF called.value = NoneVal
                 THEN Returned(Result_passed(check.name, check.hide_if_passing))
                 ELSE Result_failed_call(<<check.name, check.hide_if_passing,
                                           called.value>>)
    IN IF body.kind = "raise"
       THEN IF body.exc.cls \in ExceptionClasses
            THEN handler(body.exc)
            ELSE body
       ELSE body

\* Lines 182-183: if not result.is_passed: print_error(str(result.error)).
\* Reading an attribute that a Result does not have raises AttributeError.
ReportFailure(result) ==
    IF is_passed(result) THEN Returned(<<>>)
    ELSE IF "error" \in DOMAIN result
         THEN Returned(<<print_error(result.error)>>)
         ELSE Raised("AttributeError",
                     Quote \o "Result" \o Quote \o " object has no attribute "
                     \o Quote \o "error" \o Quote)

\* What the environment allows: test -f succeeds exactly when the file is
\* there, and a command that reads a downloaded file cannot succeed without
\* it. Every other status is up to the environment.
StatusesPossible(fun, w, sts) ==
    CASE fun = "check_zip_file_exists" -> (sts[1] = 0) <=> ("zip" \in w.files)
      [] fun = "check_sha512_file_exists" ->
            (sts[1] = 0) <=> ("sha512" \in w.files)
      [] fun = "check_keys_file_exists" -> (sts[1] = 0) <=> ("KEYS" \in w.files)
      [] fun = "check_asc_file_exists" -> (sts[1] = 0) <=> ("asc" \in w.files)
      [] fun = "check_sha512" ->
            (sts[1] = 0) => ({"zip", "sha512"} \subseteq w.files)
      [] fun = "check_gpg_key_in_keys_file" ->
            (sts[1] = 0) => ("KEYS" \in w.files)
      [] fun = "check_gpg_signature" ->
            /\ (sts[1] = 0) => ("KEYS" \in w.files)
            /\ (sts[4] = 0) => ({"zip", "asc"} \subseteq w.files)
      [] fun = "check_unzip" -> (sts[1] = 0) => ("zip" \in w.files)
      [] OTHER -> TRUE

(***************************************************************************)
(* checks.py run_checks, and main.py from line 203 on.                     *)
(*                                                                         *)
(* pc: "run_checks" in the loop of run_checks (called at line 203 of       *)
(*     main), "print_report" at line 204, "exit_decision" at line 205,     *)
(*     "raised" when an exception is propagating out of main, "exited"     *)
(*     when the process has ended, "idle" when main is not running.        *)
(***************************************************************************)
\* What the check functions look at: the downloaded files, the manifests
\* in the source directory, and the two trees.
Environment ==
    [files |-> world.files, manifests |-> world.manifests,
     git_tree |-> left_fs, source_tree |-> right_fs]

\* One iteration of the loop of run_checks, lines 168-184: the check
\* checks[Len(invoked) + 1] is invoked and its result recorded.
RunCheck ==
    /\ pc = "run_checks"
    /\ Len(invoked) < Len(checks)
    /\ LET check == checks[Len(invoked) + 1]
       IN \E sts \in [1..NumCommands(check.fun) -> Statuses] :
            /\ StatusesPossible(check.fun, world, sts)
            /\ LET called == Check_call(check, state, Environment, sts)
                   tried == TryResult(check, called)
                   shown == IF tried.kind = "return"
                            THEN ReportFailure(tried.value)
                            ELSE tried
               IN /\ invoked' = Append(invoked,
                                       [name |-> check.name, called |-> called])
                  /\ output' = Append(output, step("Running check: " \o check.name))
                               \o (IF shown.kind = "return" THEN shown.value
                                   ELSE <<>>)
                  /\ IF shown.kind = "raise"
                     THEN /\ exc' = shown.exc
                          /\ pc' = "raised"
                          /\ UNCHANGED results
                     ELSE /\ results' = Append(results, tried.value)
                          /\ UNCHANGED <<exc, pc>>
    /\ UNCHANGED <<state, checks, world, report, problems, exit_status,
                   fmtVars, treeVars, shVars, mainVars>>

\* Line 185: return Report(results).
RunChecksReturn ==
    /\ pc = "run_checks"
    /\ Len(invoked) = Len(checks)
    /\ report' = Report(results)
    /\ pc' = "print_report"
    /\ UNCHANGED <<state, checks, world, invoked, results, output, exc,
                   problems, exit_status, fmtVars, treeVars, shVars, mainVars>>

\* len(result.kind.name)
KindNameLen(kind) == IF kind = "ERROR" THEN 5 ELSE 4

Max(S) == CHOOSE m \in S : \A n \in S : n <= m

Spaces(n) == [i \in 1..n |-> " "]

\* report.py print_report: the lines it logs, or the ValueError of max() of
\* an empty sequence.
print_report(rep) ==
    IF rep.results = <<>>
    THEN Raised("ValueError", "max() arg is an empty sequence")
    ELSE LET max_len == Max({KindNameLen(rep.results[i].kind) :
                               i \in DOMAIN rep.results})
             lines(result) ==
                 IF is_passed(result) /\ result.hide_if_passing THEN <<>>
                 ELSE LET gap == max_len - KindNameLen(result.kind)
                          padding_left == str_join("", Spaces((gap + 1) \div 2))
                          padding_right == str_join("", Spaces(gap \div 2))
                      IN <<info("[" \o padding_left \o result.kind
                                \o padding_right \o "] " \o result.name)>>
                         \o (IF ~is_passed(result)
                             THEN <<info(result.message)>>
                             ELSE <<>>)
             RECURSIVE all(_)
             all(i) == IF i > Len(rep.results) THEN <<>>
                       ELSE lines(rep.results[i]) \o all(i + 1)
         IN Returned(<<header("Summary follows")>> \o all(1))

\* main.py, line 204.
PrintReport ==
    /\ pc = "print_report"
    /\ LET printed == print_report(report)
       IN IF printed.kind = "raise"
          THEN /\ exc' = printed.exc
               /\ pc' = "raised"
               /\ UNCHANGED output
          ELSE /\ output' = output \o printed.value
               /\ pc' = "exit_decision"
               /\ UNCHANGED exc
    /\ UNCHANGED <<state, checks, world, invoked, results, report, problems,
                   exit_status, fmtVars, treeVars, shVars, mainVars>>

\* main.py, lines 205-212: main returns (the process ends with status 0) or
\* calls sys.exit(1).
ExitDecision ==
    /\ pc = "exit_decision"
    /\ problems' = problem_count(report)
    /\ IF problem_count(report) = 0
       THEN /\ output' = Append(output, info("Everything seems to be in order."))
            /\ exit_status' = 0
       ELSE /\ output' = Append(output,
                                info("Found " \o ToString(problem_count(report))
                                     \o " potential problems."))
            /\ exit_status' = 1
    /\ pc' = "exited"
    /\ UNCHANGED <<state, checks, world, invoked, results, report, exc,
                   fmtVars, treeVars, shVars, mainVars>>

\* An exception that nothing catches ends the process: the interpreter
\* prints the traceback and exits with status 1.
UncaughtException ==
    /\ pc = "raised"
    /\ output' = Append(output, [by |-> "traceback",
                                 text |-> format_exception_only(exc)])
    /\ exit_status' = 1
    /\ pc' = "exited"
    /\ UNCHANGED <<state, checks, world, invoked, results, report, exc,
                   problems, fmtVars, treeVars, shVars, mainVars>>

(***************************************************************************)
(* The inputs of the model.                                                *)
(***************************************************************************)
NoReport == [none |-> TRUE]

NoException == [cls |-> NoneVal, msg |-> NoneVal]

Pending == [kind |-> "pending"]

Absent == "absent"

Lit(text) == [lit |-> text]

Field(name) == [field |-> name]

\* main.py, lines 155-173: the defaults of the three naming templates.
DefaultZipnameTemplate ==
    <<Lit("apache-"), Field("project"), Field("dash_module"),
      Field("dash_incubating"), Lit("-"), Field("version"),
      Lit("-source-release")>>

DefaultSourcedirTemplate ==
    <<Field("module_or_project"), Lit("-"), Field("version")>>

DefaultReponameTemplate ==
    <<Field("incubator_dash"), Field("project"), Field("dash_module"),
      Lit(".git")>>

\* A State as main builds it at line 200 (work_dir is the directory made by
\* tempfile.mkdtemp).
DemoState(module, incubating, zipname, sourcedir, reponame, command) ==
    [project |-> "demo", module |-> module, version |-> "1.0",
     work_dir |-> "/tmp/w", incubating |-> incubating,
     zipname_template |-> zipname, sourcedir_template |-> sourcedir,
     github_reponame_template |-> reponame, gpg_key |-> "ABCD1234",
     git_hash |-> "0123abc", build_and_test_command |-> command]

DefaultState ==
    DemoState(NoneVal, TRUE, DefaultZipnameTemplate, DefaultSourcedirTemplate,
              DefaultReponameTemplate, NoneVal)

\* Templates that name a placeholder the resolver does not know.
UnknownZipnameTemplate == <<Field("name"), Lit("-"), Field("version")>>

UnknownSourcedirTemplate == <<Field("project"), Lit("-"), Field("release")>>

UnknownReponameTemplate == <<Field("repo"), Lit(".git")>>

\* The configurations of a run: the default templates with and without a
\* module and an explicit build command, and every combination of default
\* and unknown templates.
RunStates ==
    {DemoState(m, TRUE, DefaultZipnameTemplate, DefaultSourcedirTemplate,
               DefaultReponameTemplate, c) :
        m \in {NoneVal, "brave"}, c \in {NoneVal, "true"}}
    \cup
    {DemoState(NoneVal, TRUE, z, s, r, NoneVal) :
        z \in {DefaultZipnameTemplate, UnknownZipnameTemplate},
        s \in {DefaultSourcedirTemplate, UnknownSourcedirTemplate},
        r \in {DefaultReponameTemplate, UnknownReponameTemplate}}

Artifacts == {"zip", "sha512", "asc", "KEYS"}

Manifests == {"pom.xml", "package.json"}

\* The environments of a run: any of the four files may be missing after
\* the download; the source directory may hold any of the manifests.
Worlds ==
    [files : SUBSET Artifacts, manifests : {{}}]
    \cup [files : {Artifacts}, manifests : SUBSET Manifests]

OneFile(name, content) == [p \in {<<name>>} |-> content]

\* The trees that the clone and the extraction leave, in a run of the
\* registered checks: equal trees, and an archive with a file build.log
\* that the checkout does not have.
RunTrees ==
    { <<OneFile("DEPENDENCIES", "x"), OneFile("DEPENDENCIES", "x")>>,
      <<EmptyTree, OneFile("build.log", "x")>> }

\* Lists of at most n checks whose functions ignore the State.
StubChecks ==
    {Check(f, "stub check", h) : f \in StubFuns, h \in BOOLEAN}

StubLists(n) == UNION {[1..k -> StubChecks] : k \in 0..n}

RunIdle ==
    /\ pc = "idle"
    /\ checks = <<>>
    /\ world = [files |-> {}, manifests |-> {}]
    /\ invoked = <<>>
    /\ results = <<>>
    /\ output = <<>>
    /\ report = NoReport
    /\ exc = NoException
    /\ problems = -1
    /\ exit_status = -1

FmtIdle ==
    /\ template = <<>>
    /\ resolved = Pending

TreeIdle ==
    /\ left_fs = EmptyTree
    /\ right_fs = EmptyTree
    /\ tree_pc = "idle"
    /\ errors = <<>>

ShIdle ==
    /\ sh_cmds = <<>>
    /\ sh_workdir = NoneVal
    /\ sh_statuses = <<>>
    /\ sh_ran = <<>>
    /\ sh_returned = Pending

MainIdle ==
    /\ repo = NoneVal
    /\ downloaded_to = NoneVal

(***************************************************************************)
(* Spec: run_checks, called at line 203 of main, and the rest of main.     *)
(* The list of checks is the registered list, run against a State and an   *)
(* environment, or any short list of check functions that return None,     *)
(* return an error description or raise.                                   *)
(***************************************************************************)
Init ==
    /\ pc = "run_checks"
    /\ \/ /\ checks = registered_checks
          /\ state \in RunStates
          /\ world \in Worlds
          /\ \E t \in RunTrees : left_fs = t[1] /\ right_fs = t[2]
       \/ /\ checks \in StubLists(MaxChecks)
          /\ state = DefaultState
          /\ world = [files |-> {}, manifests |-> {}]
          /\ left_fs = EmptyTree
          /\ right_fs = EmptyTree
    /\ invoked = <<>>
    /\ results = <<>>
    /\ output = <<>>
    /\ report = NoReport
    /\ exc = NoException
    /\ problems = -1
    /\ exit_status = -1
    /\ FmtIdle
    /\ tree_pc = "idle"
    /\ errors = <<>>
    /\ ShIdle
    /\ MainIdle

Next ==
    \/ RunCheck
    \/ RunChecksReturn
    \/ PrintReport
    \/ ExitDecision
    \/ UncaughtException

Spec == Init /\ [][Next]_vars

(***************************************************************************)
(* SpecReport: lines 204-212 of main, for any Report that run_checks can   *)
(* hand to them. In main the Report holds one Result per registered check, *)
(* so that it is never empty.                                              *)
(***************************************************************************)
ReportResults ==
    {[name |-> "a check", hide_if_passing |-> h,
      message |-> IF k = "PASS" THEN NoneVal ELSE "something is wrong",
      kind |-> k] : h \in BOOLEAN, k \in ResultKind}

InitReport ==
    /\ pc = "print_report"
    /\ \E n \in 1..MaxResults : \E rs \in [1..n -> ReportResults] :
          report = Report(rs)
    /\ state = DefaultState
    /\ checks = <<>>
    /\ world = [files |-> {}, manifests |-> {}]
    /\ invoked = <<>>
    /\ results = <<>>
    /\ output = <<>>
    /\ exc = NoException
    /\ problems = -1
    /\ exit_status = -1
    /\ FmtIdle
    /\ TreeIdle
    /\ ShIdle
    /\ MainIdle

NextReport ==
    \/ PrintReport
    \/ ExitDecision

SpecReport == InitReport /\ [][NextReport]_vars

(***************************************************************************)
(* SpecFormat: State._format_template, for any State and any short         *)
(* template over the known placeholders, two unknown ones and literal      *)
(* text.                                                                   *)
(***************************************************************************)
TemplateFieldNames ==
    {"project", "module", "module_or_project", "version",
     "dash_module", "underscore_module", "module_dash", "module_underscore",
     "dash_incubating", "underscore_incubating", "incubating_dash",
     "incubating_underscore", "dash_incubator", "underscore_incubator",
     "incubator_dash", "incubator_underscore",
     "name", "release"}

TemplateTokens == {Lit("-")} \cup {Field(n) : n \in TemplateFieldNames}

Templates(n) == UNION {[1..k -> TemplateTokens] : k \in 0..n}

ResolverStates ==
    {DemoState(m, i, DefaultZipnameTemplate, DefaultSourcedirTemplate,
               DefaultReponameTemplate, NoneVal) :
        m \in {NoneVal, "", "brave"}, i \in BOOLEAN}

InitFormat ==
    /\ state \in ResolverStates
    /\ template \in Templates(MaxTemplateLen)
    /\ resolved = Pending
    /\ pc = "idle"
    /\ checks = <<>>
    /\ world = [files |-> {}, manifests |-> {}]
    /\ invoked = <<>>
    /\ results = <<>>
    /\ output = <<>>
    /\ report = NoReport
    /\ exc = NoException
    /\ problems = -1
    /\ exit_status = -1
    /\ TreeIdle
    /\ ShIdle
    /\ MainIdle

\* self._format_template(template)
FormatTemplate ==
    /\ resolved = Pending
    /\ resolved' = _format_template(state, template)
    /\ UNCHANGED <<runVars, template, treeVars, shVars, mainVars>>

SpecFormat == InitFormat /\ [][FormatTemplate]_vars

(***************************************************************************)
(* SpecTree: the comparison of check_git_revision (lines 360-369), for any *)
(* pair of small trees that the clone and the extraction can leave.        *)
(***************************************************************************)
\* What can be at a path in the two trees: a file on one side only, the
\* same file, a file whose content differs, a file that cannot be read on
\* one side; a directory on one side only, or on both.
FilePairs ==
    {<<"x", Absent>>, <<Absent, "x">>, <<"x", "x">>, <<"x", "y">>,
     <<"x", "locked">>, <<"locked", "x">>}

DirPairs == {<<"dir", Absent>>, <<Absent, "dir">>, <<"dir", "dir">>}

WithEntry(fs, p, entry) ==
    IF entry = Absent THEN fs
    ELSE [q \in DOMAIN fs \cup {p} |-> IF q = p THEN entry ELSE fs[q]]

InitTree ==
    /\ left_fs = EmptyTree
    /\ right_fs = EmptyTree
    /\ tree_pc = "populate"
    /\ errors = <<>>
    /\ state = DefaultState
    /\ pc = "idle"
    /\ checks = <<>>
    /\ world = [files |-> {}, manifests |-> {}]
    /\ invoked = <<>>
    /\ results = <<>>
    /\ output = <<>>
    /\ report = NoReport
    /\ exc = NoException
    /\ problems = -1
    /\ exit_status = -1
    /\ FmtIdle
    /\ ShIdle
    /\ MainIdle

\* The clone and the extraction leave an entry at one more path: in the
\* root, or in a directory that both trees have.
PopulateTrees ==
    /\ tree_pc = "populate"
    /\ Cardinality(DOMAIN left_fs \cup DOMAIN right_fs) < MaxEntries
    /\ \E rel \in {<<>>} \cup (DOMAIN left_fs \cap DOMAIN right_fs) :
       \E n \in Names :
          /\ IsDir(left_fs, rel) /\ IsDir(right_fs, rel)
          /\ Append(rel, n) \notin DOMAIN left_fs \cup DOMAIN right_fs
          /\ \E pair \in IF n \in FileNames THEN FilePairs ELSE DirPairs :
                /\ (pair = <<"dir", "dir">>) => Len(rel) < MaxDepth
                /\ left_fs' = WithEntry(left_fs, Append(rel, n), pair[1])
                /\ right_fs' = WithEntry(right_fs, Append(rel, n), pair[2])
    /\ UNCHANGED <<runVars, fmtVars, tree_pc, errors, shVars, mainVars>>

\* check_git_revision, lines 360-369.
CompareTheTrees ==
    /\ tree_pc = "populate"
    /\ errors' = CompareTrees(left_fs, right_fs, git_dir(state).value,
                              source_dir(state).value)
    /\ tree_pc' = "compared"
    /\ UNCHANGED <<runVars, fmtVars, left_fs, right_fs, shVars, mainVars>>

NextTree ==
    \/ PopulateTrees
    \/ CompareTheTrees

SpecTree == InitTree /\ [][NextTree]_vars

(***************************************************************************)
(* The claims about run_checks and main, stated over Spec.                 *)
(***************************************************************************)
\* The list of checks holds exactly one check that raises, and every other
\* check returns None.
ExactlyOneRaises ==
    /\ \A i \in DOMAIN checks : checks[i].fun \in {"returns_none", "raises"}
    /\ Cardinality({i \in DOMAIN checks : checks[i].fun = "raises"}) = 1

\* Claim C1: for a list of N checks of which exactly one raises and the
\* others return None, run_checks returns a Report with exactly N results in
\* list order, the result of the raising check being the only one that is
\* not PASS (it is ERROR or FAIL).
C1_OneRaisingCheckIsTheOnlyProblem ==
    (ExactlyOneRaises /\ pc # "run_checks") =>
        /\ report # NoReport
        /\ Len(report.results) = Len(checks)
        /\ \A i \in DOMAIN checks :
              /\ report.results[i].name = checks[i].name
              /\ (checks[i].fun = "returns_none")
                    => report.results[i].kind = "PASS"
              /\ (checks[i].fun = "raises")
                    => report.results[i].kind \in {"ERROR", "FAIL"}

\* Claim C2: run_checks never raises: whatever the checks do (return None,
\* return an error description, raise), once run_checks has ended it has
\* returned a Report holding one result per check, in list order.
C2_RunChecksAlwaysReturnsAReport ==
    (pc # "run_checks") =>
        /\ report # NoReport
        /\ Len(report.results) = Len(checks)
        /\ \A i \in DOMAIN checks : report.results[i].name = checks[i].name

\* The kind and the message the claims give to the outcome of a call.
ClaimedKind(called) ==
    IF called.kind = "raise" THEN "ERROR"
    ELSE IF called.value = NoneVal THEN "PASS" ELSE "FAIL"

ClaimedMessage(called) ==
    IF called.kind = "raise" THEN format_exception_only(called.exc)
    ELSE called.value

\* Claim C3: every check that has been invoked has a recorded result, whose
\* kind is PASS when the check returned None, FAIL with the returned
\* description as message when it returned one, and ERROR with the short
\* description of the exception when it raised.
C3_OutcomesAreClassifiedByKind ==
    \A i \in DOMAIN invoked :
        /\ i <= Len(results)
        /\ results[i].kind = ClaimedKind(invoked[i].called)
        /\ results[i].message = ClaimedMessage(invoked[i].called)

\* The position in the output of the line that announces the i-th check,
\* and the position that ends what the i-th check has output.
StepPosition(i) ==
    CHOOSE j \in DOMAIN output :
        /\ output[j].by = "step"
        /\ Cardinality({k \in 1..j : output[k].by = "step"}) = i

StepEnd(i) ==
    IF i < Len(invoked) THEN StepPosition(i + 1) - 1
    ELSE IF \E j \in DOMAIN output : output[j].by = "header"
         THEN (CHOOSE j \in DOMAIN output : output[j].by = "header") - 1
         ELSE Len(output)

\* Claim C4: the message of every result that is not PASS is output by
\* run_checks once the check has finished and before the next check is
\* invoked, and is output again by the final report.
C4_FailuresAreOutputImmediatelyAndAgain ==
    \A i \in DOMAIN invoked :
        (ClaimedKind(invoked[i].called) # "PASS") =>
            /\ \E j \in (StepPosition(i) + 1)..StepEnd(i) :
                  output[j] = print_error(ClaimedMessage(invoked[i].called))
            /\ (pc = "exited") =>
                  \E j \in DOMAIN output :
                      /\ j > StepEnd(Len(invoked))
                      /\ output[j] = info(ClaimedMessage(invoked[i].called))

NamesUnknownPlaceholder(st) ==
    \E tmpl \in {st.zipname_template, st.sourcedir_template,
                 st.github_reponame_template} :
        _format_template(st, tmpl).kind = "raise"

\* Claim C8: when one of the three naming templates names an unknown
\* placeholder, the run is aborted before the first check is invoked: no
\* check is run and no Report is produced.
C8_UnknownPlaceholderAbortsBeforeAnyCheck ==
    NamesUnknownPlaceholder(state) =>
        /\ invoked = <<>>
        /\ report = NoReport

(***************************************************************************)
(* The claim about the problem count and the exit status, stated over      *)
(* SpecReport.                                                             *)
(***************************************************************************)
NonPassCount(rep) ==
    Cardinality({i \in DOMAIN rep.results : rep.results[i].kind # "PASS"})

\* Claim C5: the problem count of a Report is the number of its results
\* whose kind is not PASS, and the process that has printed the Report exits
\* with status 0 exactly when that number is 0, and with a non-zero status
\* when at least one result is a failure or an error.
C5_ProblemCountDecidesExitStatus ==
    (report # NoReport) =>
        /\ problem_count(report) = NonPassCount(report)
        /\ (pc = "exited" /\ exc = NoException) =>
              /\ problems = NonPassCount(report)
              /\ (exit_status = 0) <=> (NonPassCount(report) = 0)
              /\ (NonPassCount(report) > 0) => (exit_status > 0)

\* The process has exited on a Report that holds passed results and
\* problems.
C5_Witness ==
    /\ pc = "exited"
    /\ exc = NoException
    /\ report # NoReport
    /\ exit_status = 1
    /\ problems = 2
    /\ \E i \in DOMAIN report.results : report.results[i].kind = "PASS"

(***************************************************************************)
(* The claim about the template resolver, stated over SpecFormat.          *)
(***************************************************************************)
\* The placeholder names that the resolver offers, in the order in which
\* its error lists them.
KnownPlaceholderNames ==
    <<"project", "module", "module_or_project", "version",
      "dash_module", "underscore_module", "module_dash", "module_underscore",
      "dash_incubating", "underscore_incubating", "incubating_dash",
      "incubating_underscore", "dash_incubator", "underscore_incubator",
      "incubator_dash", "incubator_underscore">>

IsKnownPlaceholder(name) ==
    \E i \in DOMAIN KnownPlaceholderNames : KnownPlaceholderNames[i] = name

\* The replacement fields of a template that name no known placeholder.
UnknownFields(tmpl) ==
    SelectSeq(tmpl, LAMBDA tok : IsField(tok) /\ ~IsKnownPlaceholder(tok.field))

\* Claim C7: resolving a template that names only known placeholders
\* returns a text, and resolving a template that names an unknown
\* placeholder raises an error whose text names the first unknown
\* placeholder of the template and lists every valid placeholder.
C7_ResolutionFailsExactlyOnUnknownPlaceholders ==
    (resolved # Pending) =>
        IF UnknownFields(template) = <<>>
        THEN resolved.kind = "return"
        ELSE /\ resolved.kind = "raise"
             /\ resolved.exc.msg =
                   "Placeholder " \o Quote \o Head(UnknownFields(template)).field
                   \o Quote \o " is not known. Valid placeholders: "
                   \o str_join(", ", KnownPlaceholderNames)

\* A template that names two different unknown placeholders has been
\* resolved.
C7_Witness ==
    /\ resolved # Pending
    /\ resolved.kind = "raise"
    /\ template = <<Field("release"), Field("name")>>

(***************************************************************************)
(* The claims about the comparison of the two trees, stated over SpecTree. *)
(***************************************************************************)
\* The path of an entry as os.path.join builds it from the root directory.
PathText(root, p) == str_join("/", <<root>> \o p)

Occurrences(list, x) == Cardinality({i \in DOMAIN list : list[i] = x})

\* Claim C9: once the trees are compared, every entry that only the git
\* checkout has is the subject of exactly one discrepancy "<path> is only
\* in the git checkout" unless its name is on the left allow-list, every
\* entry that only the source archive has is the subject of exactly one
\* discrepancy "<path> is only in the source archive" unless its name is on
\* the right allow-list, at every depth, and an allow-listed entry is the
\* subject of none.
C9_OneSidedEntriesAreReportedOnce ==
    (tree_pc = "compared") =>
        /\ \A p \in DOMAIN left_fs \ DOMAIN right_fs :
              Occurrences(errors, PathText(git_dir(state).value, p)
                                  \o " is only in the git checkout")
              = IF p[Len(p)] \in {".git"} THEN 0 ELSE 1
        /\ \A p \in DOMAIN right_fs \ DOMAIN left_fs :
              Occurrences(errors, PathText(source_dir(state).value, p)
                                  \o " is only in the source archive")
              = IF p[Len(p)] \in {"DEPENDENCIES"} THEN 0 ELSE 1

\* Trees have been compared in which only the checkout has .git and only
\* the archive has build.log, in a common subdirectory.
C9_Witness ==
    /\ tree_pc = "compared"
    /\ <<".git">> \in DOMAIN left_fs \ DOMAIN right_fs
    /\ \E d \in DirNames : <<d, "build.log">> \in DOMAIN right_fs \ DOMAIN left_fs
    /\ Len(errors) = 1

\* The directory levels that the comparison visits: the root and every
\* directory that both trees have.
ComparedLevels ==
    {<<>>} \cup {p \in DOMAIN left_fs \cap DOMAIN right_fs :
                    left_fs[p] = "dir" /\ right_fs[p] = "dir"}

\* The files of a level whose contents differ.
DifferingFiles(rel) ==
    diff_files(left_fs, right_fs, dircmp(NoneVal, NoneVal, rel))

\* Claim C10: once the trees are compared, for every directory level that
\* holds files whose contents differ, the list of discrepancies holds
\* exactly one entry "The contents of the following files differ: <names>"
\* naming all the differing files of that level, whether the level is the
\* root, a sibling or a nested common subdirectory.
C10_OneContentMismatchPerLevel ==
    (tree_pc = "compared") =>
        \A rel \in ComparedLevels :
            (DifferingFiles(rel) # <<>>) =>
                Occurrences(errors,
                            str_join("", DiffFilesText(DifferingFiles(rel)))) = 1

\* The files of a level that could not be compared.
UncomparableFiles(rel) ==
    funny_files(left_fs, right_fs, dircmp(NoneVal, NoneVal, rel))

\* The discrepancy that the claim expects for uncomparable files.
UncomparableMessage(names) ==
    "Failed to compare contents of the following files: "
    \o str_join(" ", names)

\* Claim C11: once the trees are compared, for every directory level, at
\* any depth, that holds files that could not be compared, the list of
\* discrepancies holds exactly one entry "Failed to compare contents of the
\* following files: <names>" naming exactly those files, and it holds no
\* entry of that kind for a level without such files.
C11_UncomparableFilesAreReportedSeparately ==
    (tree_pc = "compared") =>
        /\ \A rel \in ComparedLevels :
              (UncomparableFiles(rel) # <<>>) =>
                  Occurrences(errors,
                              UncomparableMessage(UncomparableFiles(rel))) = 1
        /\ (\A rel \in ComparedLevels : UncomparableFiles(rel) = <<>>) =>
              \A names \in SUBSET FileNames :
                  Occurrences(errors, UncomparableMessage(Sorted(names))) = 0

(***************************************************************************)
(* SpecBuild: check_build_and_test, for a State with and without an        *)
(* explicit command, any set of manifests in the source directory and any  *)
(* exit status of the commands.                                            *)
(***************************************************************************)
BuildStates ==
    {DemoState(m, TRUE, DefaultZipnameTemplate, DefaultSourcedirTemplate,
               DefaultReponameTemplate, c) :
        m \in {NoneVal, "brave"}, c \in {NoneVal, "true"}}

InitBuild ==
    /\ state \in BuildStates
    /\ world \in [files : {Artifacts}, manifests : SUBSET Manifests]
    /\ sh_statuses \in [1..NumCommands("check_build_and_test") -> Statuses]
    /\ sh_cmds = <<>>
    /\ sh_workdir = NoneVal
    /\ sh_ran = <<>>
    /\ sh_returned = Pending
    /\ pc = "idle"
    /\ checks = <<>>
    /\ invoked = <<>>
    /\ results = <<>>
    /\ output = <<>>
    /\ report = NoReport
    /\ exc = NoException
    /\ problems = -1
    /\ exit_status = -1
    /\ FmtIdle
    /\ TreeIdle
    /\ MainIdle

\* check_build_and_test(state)
BuildAndTest ==
    /\ sh_returned = Pending
    /\ sh_ran' = build_and_test_ran(state, world.manifests, sh_statuses)
    /\ sh_returned' = check_build_and_test(state, world.manifests, sh_statuses)
    /\ UNCHANGED <<runVars, fmtVars, treeVars, sh_cmds, sh_workdir, sh_statuses,
                 mainVars>>

SpecBuild == InitBuild /\ [][BuildAndTest]_vars

(***************************************************************************)
(* The claim about check_build_and_test, stated over SpecBuild.            *)
(***************************************************************************)
\* The strategy i is applicable: its manifest is in the source directory.
Applicable(i) == strategies[i].manifest \in world.manifests

\* The statuses of the commands of the strategy i.
StrategyStatuses(i) ==
    IF i = 1 THEN SubSeq(sh_statuses, 1, 2) ELSE SubSeq(sh_statuses, 3, 3)

\* The error of the strategy i, or None.
StrategyError(i) ==
    _check_sh(strategies[i].cmds, source_dir(state).value, StrategyStatuses(i))

\* One error per applicable strategy that failed, with the name of the
\* strategy in front.
ClaimedBuildErrors ==
    LET failing == SelectSeq(<<1, 2>>,
                             LAMBDA i : Applicable(i) /\ StrategyError(i) # NoneVal)
    IN [k \in DOMAIN failing |->
           strategies[failing[k]].name \o ": " \o StrategyError(failing[k])]

\* Claim C12: without an explicit command, check_build_and_test runs every
\* applicable strategy (maven, npm), also after an earlier one failed; it
\* returns one error per failing strategy with the name of the strategy in
\* front, None when at least one strategy ran and all that ran succeeded,
\* and the diagnostic that asks for --build-and-test-command when no
\* strategy is applicable.
C12_EveryApplicableStrategyRunsAndIsReported ==
    (sh_returned # Pending /\ state.build_and_test_command = NoneVal) =>
        /\ \A i \in DOMAIN strategies :
              Applicable(i) <=>
                  \E k \in DOMAIN sh_ran : sh_ran[k] = strategies[i].cmds[1]
        /\ sh_returned.kind = "return"
        /\ IF \A i \in DOMAIN strategies : ~Applicable(i)
           THEN sh_returned.value =
                   "Heuristics failed to figure out the way to build and test this release."
                   \o "\n" \o "Please specify the build-and-test command as:"
                   \o "\n" \o "--build-and-test-command " \o Quote
                   \o "shell script" \o Quote
                   \o "\n" \o "(Possibly --build-and-test-command true)"
           ELSE IF ClaimedBuildErrors = <<>>
                THEN sh_returned.value = NoneVal
                ELSE sh_returned.value = str_join("\n", ClaimedBuildErrors)

(***************************************************************************)
(* The claims about a run over the registered list, stated over Spec.      *)
(***************************************************************************)
\* The position of a check function in the registered list.
PositionOf(fun) ==
    CHOOSE i \in DOMAIN registered_checks : registered_checks[i].fun = fun

\* The i-th check that was invoked did not pass: it returned an error
\* description or raised.
DidNotPass(i) ==
    invoked[i].called.kind = "raise" \/ invoked[i].called.value # NoneVal

\* The run is over the registered list, with every downloaded file in place
\* but the .sha512 file.
OnlySha512Missing ==
    /\ checks = registered_checks
    /\ world.files = Artifacts \ {"sha512"}

\* Claim C13: in a run over the registered list in which the .sha512 file
\* is missing and everything else is present and valid (no check that does
\* not read the .sha512 file finds a problem), once the run has ended every
\* check has been run, and "SHA512 checksum exists with expected name" is
\* the only check that did not pass.
C13_OnlyTheSha512ExistenceCheckFails ==
    (/\ OnlySha512Missing
     /\ pc = "exited"
     /\ \A i \in DOMAIN invoked :
           checks[i].fun \notin {"check_sha512_file_exists", "check_sha512"}
              => ~DidNotPass(i)) =>
        /\ Len(invoked) = Len(registered_checks)
        /\ \A i \in DOMAIN invoked :
              DidNotPass(i) <=> (i = PositionOf("check_sha512_file_exists"))

(***************************************************************************)
(* main.py: the two download steps. A URL is the sequence of the           *)
(* directories of its path on dist.apache.org.                             *)
(***************************************************************************)
\* The Python truth value of an Optional[str].
Truthy(x) == x # NoneVal /\ x # ""

generate_base_url(rp, project, incubating) ==
    <<"repos", "dist", rp>>
    \o (IF incubating THEN <<"incubator">> ELSE <<>>)
    \o <<project>>

\* fetch_project: the URL handed to wget.
version_root(base_url, module, version) ==
    base_url \o (IF Truthy(module) THEN <<module>> ELSE <<>>) \o <<version>>

\* fetch_project: the value of --cut-dirs.
cut_dirs(module, incubating) ==
    3 + (IF Truthy(module) THEN 1 ELSE 0) + (IF incubating THEN 1 ELSE 0)

\* wget --recursive --no-host-directories --cut-dirs=n, run in the working
\* directory: the files of the directory at the URL are stored under the
\* working directory, in the directories of the URL less the first n of
\* them.
wget_directory(work_dir, url, n) ==
    IF n >= Len(url) THEN work_dir
    ELSE path_join(work_dir, str_join("/", SubSeq(url, n + 1, Len(url))))

\* The directory in which fetch_project leaves the files of the release.
fetch_project(work_dir, base_url, module, version, incubating) ==
    wget_directory(work_dir, version_root(base_url, module, version),
                   cut_dirs(module, incubating))

(***************************************************************************)
(* SpecMain: main from the download steps on (lines 197-212), over the     *)
(* registered list of checks.                                              *)
(***************************************************************************)
Repos == {"dev", "release", "test"}

MainStates ==
    {DemoState(m, i, DefaultZipnameTemplate, DefaultSourcedirTemplate,
               DefaultReponameTemplate, NoneVal) :
        m \in {NoneVal, "brave"}, i \in BOOLEAN}

\* What the downloads can leave: everything, or everything but the archive
\* or its checksum; the source directory may hold a manifest.
MainWorlds ==
    [files : {Artifacts}, manifests : {{}, {"pom.xml"}}]
    \cup [files : {Artifacts \ {"zip"}, Artifacts \ {"sha512"}},
          manifests : {{}}]

InitMain ==
    /\ pc = "fetch_project"
    /\ repo \in Repos
    /\ state \in MainStates
    /\ world \in MainWorlds
    /\ checks = registered_checks
    /\ downloaded_to = NoneVal
    /\ left_fs = EmptyTree
    /\ right_fs = EmptyTree
    /\ tree_pc = "idle"
    /\ errors = <<>>
    /\ invoked = <<>>
    /\ results = <<>>
    /\ output = <<>>
    /\ report = NoReport
    /\ exc = NoException
    /\ problems = -1
    /\ exit_status = -1
    /\ FmtIdle
    /\ ShIdle

\* main.py, line 197: fetch_project(base_url, module, version, incubating).
FetchProject ==
    /\ pc = "fetch_project"
    /\ output' = Append(output, step("Downloading release"))
    /\ downloaded_to' =
          fetch_project(state.work_dir,
                        generate_base_url(repo, state.project, state.incubating),
                        state.module, state.version, state.incubating)
    /\ pc' = "fetch_keys"
    /\ UNCHANGED <<state, checks, world, invoked, results, report, exc,
                   problems, exit_status, fmtVars, treeVars, shVars, repo>>

\* main.py, line 198: fetch_keys(base_url).
FetchKeys ==
    /\ pc = "fetch_keys"
    /\ output' = Append(output, step("Downloading KEYS file"))
    /\ pc' = "run_checks"
    /\ UNCHANGED <<state, checks, world, invoked, results, report, exc,
                   problems, exit_status, fmtVars, treeVars, shVars, mainVars>>

NextMain ==
    \/ FetchProject
    \/ FetchKeys
    \/ RunCheck
    \/ RunChecksReturn
    \/ PrintReport
    \/ ExitDecision
    \/ UncaughtException

SpecMain == InitMain /\ [][NextMain]_vars

(***************************************************************************)
(* The claims about the layout of the working directory and the order of   *)
(* a run, stated over SpecMain.                                            *)
(***************************************************************************)
\* The release directory as the claim lays it out:
\* work_dir/project/module/version, without the module when none is set.
ClaimedReleaseDir(st) ==
    str_join("/", <<st.work_dir, st.project>>
                  \o (IF Truthy(st.module) THEN <<st.module>> ELSE <<>>)
                  \o <<st.version>>)

\* Claim C14: the release directory of the State is
\* work_dir/project/module/version (without the module when none is set),
\* the archive, the checksum and the signature are <archive-name>.zip,
\* .zip.sha512 and .zip.asc in that directory, and the download step has
\* placed the fetched files in that directory.
C14_ReleaseDirectoryLayout ==
    (downloaded_to # NoneVal) =>
        /\ release_dir(state) = ClaimedReleaseDir(state)
        /\ downloaded_to = release_dir(state)
        /\ zip_path(state).value =
              release_dir(state) \o "/"
              \o _format_template(state, state.zipname_template).value \o ".zip"
        /\ sha512_path(state).value = zip_path(state).value \o ".sha512"
        /\ asc_path(state).value = zip_path(state).value \o ".asc"

\* The check functions that read the extracted source directory, and those
\* that read the git checkout.
ReadsSourceDir ==
    {"check_source_dir_in_zip", "check_git_revision", "check_blacklisted_files",
     "check_gitignore_in_release", "check_disclaimer_and_notice_look_good",
     "check_license_is_apache_2", "check_license_looks_good",
     "check_no_binary_files", "check_build_and_test"}

ReadsGitCheckout == {"check_gitignore_in_repo", "check_gitignore_in_release"}

\* The checks have been invoked one after the other in the order of the
\* registered list, none before both download steps have finished.
InvokedInRegisteredOrder ==
    /\ Len(invoked) <= Len(registered_checks)
    /\ \A i \in DOMAIN invoked : invoked[i].name = registered_checks[i].name
    /\ (invoked # <<>>) =>
          /\ pc \notin {"fetch_project", "fetch_keys"}
          /\ downloaded_to # NoneVal
          /\ Len(output) >= 2
          /\ output[1] = step("Downloading release")
          /\ output[2] = step("Downloading KEYS file")

\* In the registered list the checks that need the extracted archive or the
\* clone come after the checks that produce them, and the build is last.
RegisteredOrderRespectsDependencies ==
    /\ \A f \in ReadsSourceDir : PositionOf(f) > PositionOf("check_unzip")
    /\ \A f \in ReadsGitCheckout :
          PositionOf(f) > PositionOf("check_git_revision")
    /\ PositionOf("check_build_and_test") = Len(registered_checks)

\* Claim C15: in every run the checks are invoked one at a time in the order
\* of the registered list, after both download steps, and once the run has
\* ended each check has been invoked exactly once; in the registered list
\* every check that reads the source directory comes after check_unzip,
\* every check that reads the git checkout after check_git_revision, and
\* check_build_and_test is last.
C15_EveryCheckRunsOnceInRegisteredOrder ==
    /\ InvokedInRegisteredOrder
    /\ RegisteredOrderRespectsDependencies
    /\ (pc = "exited") => Len(invoked) = Len(registered_checks)

(***************************************************************************)
(* SpecSh: _check_sh, for any short list of commands, with and without a   *)
(* working directory, and any exit status of each command.                 *)
(***************************************************************************)
ShCommands == {"true", "npm test", "./mvnw --quiet package"}

ShStatuses == {0, 1, 2}

InitSh ==
    /\ \E n \in 1..MaxCmds :
          /\ sh_cmds \in [1..n -> ShCommands]
          /\ sh_statuses \in [1..n -> ShStatuses]
    /\ sh_workdir \in {NoneVal, "/tmp/w"}
    /\ sh_ran = <<>>
    /\ sh_returned = Pending
    /\ state = DefaultState
    /\ RunIdle
    /\ FmtIdle
    /\ TreeIdle
    /\ MainIdle

\* _check_sh(cmds, workdir)
CheckSh ==
    /\ sh_returned = Pending
    /\ sh_ran' = _check_sh_ran(sh_cmds, sh_statuses, 1)
    /\ sh_returned' = Returned(_check_sh(sh_cmds, sh_workdir, sh_statuses))
    /\ UNCHANGED <<runVars, fmtVars, treeVars, sh_cmds, sh_workdir, sh_statuses,
                   mainVars>>

SpecSh == InitSh /\ [][CheckSh]_vars

(***************************************************************************)
(* The claim about _check_sh, stated over SpecSh.                          *)
(***************************************************************************)
\* The commands whose exit status is not 0.
FailingCommands == {i \in DOMAIN sh_cmds : sh_statuses[i] # 0}

FirstFailingCommand ==
    CHOOSE i \in FailingCommands : \A j \in FailingCommands : i <= j

\* Claim C16: _check_sh runs the commands in list order and stops at the
\* first one that exits with a non-zero status, so that no later command is
\* run; the message it returns then names that command, the working
\* directory when one was given, and the exit status; it returns None if
\* and only if every command exited with status 0.
C16_CheckShStopsAtTheFirstFailure ==
    (sh_returned # Pending) =>
        /\ (sh_returned.value = NoneVal) <=> (FailingCommands = {})
        /\ IF FailingCommands = {}
           THEN sh_ran = sh_cmds
           ELSE /\ sh_ran = SubSeq(sh_cmds, 1, FirstFailingCommand)
                /\ sh_returned.value =
                      "Executing " \o Backtick \o sh_cmds[FirstFailingCommand]
                      \o Backtick
                      \o (IF sh_workdir = NoneVal THEN ""
                          ELSE " in " \o sh_workdir)
                      \o " exited with non-zero status code "
                      \o ToString(sh_statuses[FirstFailingCommand]) \o ". "
                      \o "See above for output. (Note that the command was "
                      \o "run under " \o Backtick \o "set -euo pipefail"
                      \o Backtick \o ")"

\* _check_sh has stopped at the second of three commands, in a working
\* directory, with a later command that would have failed too.
C16_Witness ==
    /\ sh_returned # Pending
    /\ Len(sh_cmds) = 3
    /\ sh_statuses = <<0, 2, 1>>
    /\ sh_workdir # NoneVal
    /\ Len(sh_ran) = 2
    /\ sh_returned.value # NoneVal

====
